---------------------------- MODULE Spec2Model ----------------------------
(***************************************************************************)
(* Memristor simulator (script.js): the six memristor classes, the         *)
(* waveform generator, simulateMemristor and SimulatorUI.runSimulation.    *)
(*                                                                         *)
(* Numbers.  A JavaScript number is modelled as an extended rational       *)
(* [n, d] in lowest terms with d >= 0.  d = 0 encodes the three            *)
(* non-finite doubles: 1/0 is Infinity, -1/0 is -Infinity and 0/0 is NaN.  *)
(* Arithmetic on finite values is exact (no rounding); signed zeros are    *)
(* not distinguished.  The transcendental library functions are modelled   *)
(* by rational stand-ins that keep the laws the program relies on:         *)
(*   Exp   base 2, linear between integer arguments, Exp(-y) = 1/Exp(y),   *)
(*         Infinity above MaxExpArg (the double overflow of Math.exp);     *)
(*   Log   the exact inverse of Exp;                                       *)
(*   Sinh  (Exp(y) - Exp(-y)) / 2;                                         *)
(*   Sin   Bhaskara's rational formula, angles in units of Math.PI.        *)
(***************************************************************************)
EXTENDS Integers, Sequences, FiniteSets, TLC

-----------------------------------------------------------------------------
(* Extended rationals *)

Abs(a) == IF a < 0 THEN -a ELSE a

Sgn(a) == IF a < 0 THEN -1 ELSE IF a > 0 THEN 1 ELSE 0

RECURSIVE GCD(_, _)
GCD(a, b) == IF b = 0 THEN a ELSE GCD(b, a % b)

Rat(n, d) ==
    IF d = 0 THEN [n |-> Sgn(n), d |-> 0]
    ELSE LET g == GCD(Abs(n), Abs(d))
         IN  [n |-> (Sgn(d) * n) \div g, d |-> Abs(d) \div g]

Num(k) == [n |-> k, d |-> 1]

NaN == [n |-> 0, d |-> 0]

PInf == [n |-> 1, d |-> 0]

NInf == [n |-> -1, d |-> 0]

Zero == Num(0)

One == Num(1)

IsNaN(x) == x.d = 0 /\ x.n = 0

IsFinite(x) == x.d # 0

FNeg(x) == [n |-> -x.n, d |-> x.d]

\* sums and products cancel common factors before they multiply
FAdd(x, y) ==
    IF x.d = 0 /\ y.d = 0
    THEN (IF x.n = y.n THEN x ELSE NaN)
    ELSE IF x.d = 0 THEN x
    ELSE IF y.d = 0 THEN y
    ELSE LET g == GCD(x.d, y.d)
         IN  Rat(x.n * (y.d \div g) + y.n * (x.d \div g), (x.d \div g) * y.d)

FSub(x, y) == FAdd(x, FNeg(y))

FMul(x, y) ==
    IF x.d = 0 \/ y.d = 0 \/ x.n = 0 \/ y.n = 0
    THEN Rat(Sgn(x.n) * Sgn(y.n), Sgn(x.d) * Sgn(y.d))
    ELSE LET g1 == GCD(Abs(x.n), y.d)
             g2 == GCD(Abs(y.n), x.d)
         IN  [n |-> (x.n \div g1) * (y.n \div g2),
              d |-> (x.d \div g2) * (y.d \div g1)]

Recip(y) == IF y.n < 0 THEN [n |-> -y.d, d |-> -y.n] ELSE [n |-> y.d, d |-> y.n]

FDiv(x, y) == FMul(x, Recip(y))

\* x < y as JavaScript compares numbers: false when either side is NaN
FLt(x, y) ==
    /\ ~IsNaN(x)
    /\ ~IsNaN(y)
    /\ IF x.d = 0 /\ y.d = 0 THEN x.n < y.n
       ELSE IF x.d = 0 THEN x.n < 0
       ELSE IF y.d = 0 THEN y.n > 0
       ELSE LET g == GCD(x.d, y.d)
            IN  x.n * (y.d \div g) < y.n * (x.d \div g)

FLe(x, y) == ~IsNaN(x) /\ ~IsNaN(y) /\ ~FLt(y, x)

FGt(x, y) == FLt(y, x)

FGe(x, y) == FLe(y, x)

\* Math.max / Math.min of two numbers: NaN when either argument is NaN
MathMax(x, y) == IF IsNaN(x) \/ IsNaN(y) THEN NaN ELSE IF FLt(x, y) THEN y ELSE x

MathMin(x, y) == IF IsNaN(x) \/ IsNaN(y) THEN NaN ELSE IF FLt(y, x) THEN y ELSE x

\* Math.pow(x, k) for an integer exponent k >= 0
RECURSIVE MathPow(_, _)
MathPow(x, k) == IF k = 0 THEN One ELSE FMul(x, MathPow(x, k - 1))

\* Math.floor of a finite number, as an integer
FloorInt(x) == x.n \div x.d

\* Math.sign
MathSign(x) == IF IsNaN(x) THEN NaN ELSE Num(Sgn(x.n))

\* the % operator on a finite dividend and a finite positive divisor
\* (truncated remainder, sign of the dividend)
FMod(x, m) ==
    LET q == FDiv(x, m)
        t == IF q.n >= 0 THEN q.n \div q.d ELSE -((-q.n) \div q.d)
    IN  FSub(x, FMul(m, Num(t)))

RECURSIVE Pow2(_)
Pow2(k) == IF k = 0 THEN 1 ELSE 2 * Pow2(k - 1)

\* largest argument at which Math.exp is still finite (709.78 for a double)
MaxExpArg == 6

\* Math.exp
ExpPos(y) ==
    LET k == FloorInt(y)
    IN  FMul(Num(Pow2(k)), FAdd(One, FSub(y, Num(k))))

MathExp(y) ==
    IF IsNaN(y) THEN NaN
    ELSE IF y.d = 0 THEN (IF y.n > 0 THEN PInf ELSE Zero)
    ELSE IF FGt(y, Num(MaxExpArg)) THEN PInf
    ELSE IF FLt(y, Num(-MaxExpArg)) THEN Zero
    ELSE IF y.n >= 0 THEN ExpPos(y)
    ELSE Recip(ExpPos(FNeg(y)))

\* Math.log
RECURSIVE Log2Floor(_, _)
Log2Floor(x, k) == IF FLt(x, Num(Pow2(k + 1))) THEN k ELSE Log2Floor(x, k + 1)

LogGeOne(x) ==
    LET k == Log2Floor(x, 0)
    IN  FAdd(Num(k), FSub(FDiv(x, Num(Pow2(k))), One))

MathLog(x) ==
    IF IsNaN(x) \/ x.n < 0 THEN NaN
    ELSE IF x.d = 0 THEN PInf
    ELSE IF x.n = 0 THEN NInf
    ELSE IF FGe(x, One) THEN LogGeOne(x)
    ELSE FNeg(LogGeOne(Recip(x)))

\* Math.sinh
MathSinh(y) == FDiv(FSub(MathExp(y), MathExp(FNeg(y))), Num(2))

\* Math.sin of theta * Math.PI, theta finite and >= 0
SinHalf(x) ==
    LET p == FMul(x, FSub(One, x))
    IN  FDiv(FMul(Num(16), p), FSub(Num(5), FMul(Num(4), p)))

SinPi(theta) ==
    LET ph == FMod(theta, Num(2))
    IN  IF FLt(ph, One) THEN SinHalf(ph) ELSE FNeg(SinHalf(FSub(ph, One)))

-----------------------------------------------------------------------------
(* Values that are not numbers *)

\* an omitted argument (the parameter takes its default)
Undefined == [n |-> 0, d |-> -2]

\* the null literal
Null == [n |-> 0, d |-> -1]

\* a parameter's default initialiser
Default(arg, dflt) == IF arg = Undefined THEN dflt ELSE arg

\* ToNumber, applied by Math.max and Math.min to their arguments
ToNumber(v) == IF v = Null THEN Zero ELSE v

-----------------------------------------------------------------------------
(* class BiolekMemristor *)

Biolek_updateMemristance(m) ==
    LET M == FAdd(FMul(m.R_ON, FDiv(m.w, m.D)),
                  FMul(m.R_OFF, FSub(One, FDiv(m.w, m.D))))
    IN  [m EXCEPT !.M = M, !.W = FDiv(One, M)]

BiolekMemristor(mu_v, D, R_ON, R_OFF, w_init_arg, p) ==
    LET w_init == Default(w_init_arg, Null)
    IN  Biolek_updateMemristance(
          [kind |-> "biolek", mu_v |-> mu_v, D |-> D, R_ON |-> R_ON, R_OFF |-> R_OFF,
           w |-> IF w_init # Null
                 THEN MathMax(Zero, MathMin(ToNumber(w_init), D))
                 ELSE FDiv(D, Num(2)),
           p |-> p, M |-> NaN, W |-> NaN])

Biolek_stepFunction(i) == IF FGe(i, Zero) THEN One ELSE Zero

Biolek_windowFunction(m, x, i) ==
    FSub(One, MathPow(FSub(x, Biolek_stepFunction(FNeg(i))), 2 * m.p))

Biolek_getCurrent(m, V) == FDiv(V, m.M)

\* mutant: the window is evaluated at the state an unwindowed step reaches
Biolek_step_WindowAfter(m, V, dt) ==
    LET i     == Biolek_getCurrent(m, V)
        w1    == FAdd(m.w, FMul(FMul(FMul(m.mu_v, FDiv(m.R_ON, m.D)), i), dt))
        f_w   == Biolek_windowFunction(m, FDiv(w1, m.D), i)
        dw_dt == FMul(FMul(FMul(m.mu_v, FDiv(m.R_ON, m.D)), i), f_w)
    IN  FAdd(m.w, FMul(dw_dt, dt))

\* this.w += dw_dt * dt: the state variable before it is clamped
Biolek_step(m, V, dt) ==
    LET i     == Biolek_getCurrent(m, V)
        f_w   == Biolek_windowFunction(m, FDiv(m.w, m.D), i)
        dw_dt == FMul(FMul(FMul(m.mu_v, FDiv(m.R_ON, m.D)), i), f_w)
    IN  FAdd(m.w, FMul(dw_dt, dt))

Biolek_updateState(m, V, dt) ==
    LET w1 == Biolek_step(m, V, dt)
        w2 == MathMax(Zero, MathMin(w1, m.D))
    IN  Biolek_updateMemristance([m EXCEPT !.w = w2])

-----------------------------------------------------------------------------
(* class JoglekarMemristor *)

Joglekar_updateMemristance(m) ==
    LET M == FAdd(FMul(m.R_ON, FDiv(m.w, m.D)),
                  FMul(m.R_OFF, FSub(One, FDiv(m.w, m.D))))
    IN  [m EXCEPT !.M = M, !.W = FDiv(One, M)]

JoglekarMemristor(mu_v, D, R_ON, R_OFF, w_init_arg, p) ==
    LET w_init == Default(w_init_arg, Null)
    IN  Joglekar_updateMemristance(
          [kind |-> "joglekar", mu_v |-> mu_v, D |-> D, R_ON |-> R_ON, R_OFF |-> R_OFF,
           w |-> IF w_init # Null
                 THEN MathMax(Zero, MathMin(ToNumber(w_init), D))
                 ELSE FDiv(D, Num(2)),
           p |-> p, M |-> NaN, W |-> NaN])

\* mutant: the exponent is p, not 2 * p
Joglekar_windowFunction_OddPower(m, x) ==
    FSub(One, MathPow(FSub(FMul(Num(2), x), One), m.p))

Joglekar_windowFunction(m, x) ==
    FSub(One, MathPow(FSub(FMul(Num(2), x), One), 2 * m.p))

Joglekar_getCurrent(m, V) == FDiv(V, m.M)

\* this.w += dw_dt * dt: the state variable before it is clamped
Joglekar_step(m, V, dt) ==
    LET i     == Joglekar_getCurrent(m, V)
        f_w   == Joglekar_windowFunction(m, FDiv(m.w, m.D))
        dw_dt == FMul(FMul(FMul(m.mu_v, FDiv(m.R_ON, m.D)), i), f_w)
    IN  FAdd(m.w, FMul(dw_dt, dt))

Joglekar_updateState(m, V, dt) ==
    LET w1 == Joglekar_step(m, V, dt)
        w2 == MathMax(Zero, MathMin(w1, m.D))
    IN  Joglekar_updateMemristance([m EXCEPT !.w = w2])

-----------------------------------------------------------------------------
(* class LinearIonDriftMemristor *)

Linear_updateMemristance(m) ==
    LET M == FAdd(FMul(m.R_ON, FDiv(m.w, m.D)),
                  FMul(m.R_OFF, FSub(One, FDiv(m.w, m.D))))
    IN  [m EXCEPT !.M = M, !.W = FDiv(One, M)]

LinearIonDriftMemristor(mu_v, D, R_ON, R_OFF, w_init_arg) ==
    LET w_init == Default(w_init_arg, Null)
    IN  Linear_updateMemristance(
          [kind |-> "linear", mu_v |-> mu_v, D |-> D, R_ON |-> R_ON, R_OFF |-> R_OFF,
           w |-> IF w_init # Null
                 THEN MathMax(Zero, MathMin(ToNumber(w_init), D))
                 ELSE FDiv(D, Num(2)),
           M |-> NaN, W |-> NaN])

Linear_getCurrent(m, V) == FDiv(V, m.M)

\* this.w += dw_dt * dt: the state variable before it is clamped
Linear_step(m, V, dt) ==
    LET i     == Linear_getCurrent(m, V)
        dw_dt == FMul(FDiv(FMul(m.mu_v, m.R_ON), m.D), i)
    IN  FAdd(m.w, FMul(dw_dt, dt))

\* mutant: the clamp has lost its upper bound
Linear_updateState_NoCeiling(m, V, dt) ==
    LET w1 == Linear_step(m, V, dt)
        w2 == MathMax(Zero, w1)
    IN  Linear_updateMemristance([m EXCEPT !.w = w2])

Linear_updateState(m, V, dt) ==
    LET w1 == Linear_step(m, V, dt)
        w2 == MathMax(Zero, MathMin(w1, m.D))
    IN  Linear_updateMemristance([m EXCEPT !.w = w2])

-----------------------------------------------------------------------------
(* class VTEAMMemristor; P is the record of the constructor's arguments     *)
(* other than w_init                                                        *)

\* mutant: the exponent is not normalised by the width of the domain
VTEAM_updateMemristance_NoNorm(m) ==
    LET lambda == MathLog(FDiv(m.R_off, m.R_on))
        M == FMul(m.R_on, MathExp(FMul(lambda, FSub(m.w, m.w_on))))
    IN  [m EXCEPT !.M = M, !.W = FDiv(One, M)]

VTEAM_updateMemristance(m) ==
    LET lambda == MathLog(FDiv(m.R_off, m.R_on))
        M == FMul(m.R_on,
                  MathExp(FMul(FDiv(lambda, FSub(m.w_off, m.w_on)),
                               FSub(m.w, m.w_on))))
    IN  [m EXCEPT !.M = M, !.W = FDiv(One, M)]

\* mutant: the default initial state is the domain floor
VTEAMMemristor_FloorDefault(P, w_init_arg) ==
    LET w_init == IF w_init_arg \in {Undefined, Null} THEN P.w_on ELSE w_init_arg
    IN  VTEAM_updateMemristance(
          [kind |-> "vteam", k_off |-> P.k_off, k_on |-> P.k_on,
           alpha_off |-> P.alpha_off, alpha_on |-> P.alpha_on,
           w_off |-> P.w_off, w_on |-> P.w_on,
           w |-> MathMin(P.w_off, MathMax(P.w_on, ToNumber(w_init))),
           a_off |-> P.a_off, a_on |-> P.a_on, w_c |-> P.w_c,
           u_off |-> P.u_off, u_on |-> P.u_on,
           R_on |-> P.R_on, R_off |-> P.R_off, M |-> NaN, W |-> NaN])

VTEAMMemristor(P, w_init_arg) ==
    LET w_init == Default(w_init_arg, Zero)
    IN  VTEAM_updateMemristance(
          [kind |-> "vteam", k_off |-> P.k_off, k_on |-> P.k_on,
           alpha_off |-> P.alpha_off, alpha_on |-> P.alpha_on,
           w_off |-> P.w_off, w_on |-> P.w_on,
           w |-> MathMin(P.w_off, MathMax(P.w_on, ToNumber(w_init))),
           a_off |-> P.a_off, a_on |-> P.a_on, w_c |-> P.w_c,
           u_off |-> P.u_off, u_on |-> P.u_on,
           R_on |-> P.R_on, R_off |-> P.R_off, M |-> NaN, W |-> NaN])

VTEAM_f_off(m, w) == MathExp(FNeg(MathExp(FDiv(FSub(w, m.a_off), m.w_c))))

VTEAM_f_on(m, w) == MathExp(FNeg(MathExp(FDiv(FNeg(FSub(w, m.a_on)), m.w_c))))

\* this.w + dw_dt * dt: the argument of the clamp
\* mutant: the OFF branch tests only the sign of u_off
VTEAM_step_NoOffThreshold(m, u, dt) ==
    LET dw_dt ==
          IF FLt(Zero, m.u_off)
          THEN FMul(FMul(m.k_off,
                         MathPow(FSub(FDiv(u, m.u_off), One), m.alpha_off)),
                    VTEAM_f_off(m, m.w))
          ELSE IF FLt(u, m.u_on) /\ FLt(m.u_on, Zero)
          THEN FMul(FMul(m.k_on,
                         MathPow(FSub(FDiv(u, m.u_on), One), m.alpha_on)),
                    VTEAM_f_on(m, m.w))
          ELSE Zero
    IN  FAdd(m.w, FMul(dw_dt, dt))

VTEAM_step(m, u, dt) ==
    LET dw_dt ==
          IF FLt(Zero, m.u_off) /\ FGt(u, m.u_off)
          THEN FMul(FMul(m.k_off,
                         MathPow(FSub(FDiv(u, m.u_off), One), m.alpha_off)),
                    VTEAM_f_off(m, m.w))
          ELSE IF FLt(u, m.u_on) /\ FLt(m.u_on, Zero)
          THEN FMul(FMul(m.k_on,
                         MathPow(FSub(FDiv(u, m.u_on), One), m.alpha_on)),
                    VTEAM_f_on(m, m.w))
          ELSE Zero
    IN  FAdd(m.w, FMul(dw_dt, dt))

VTEAM_updateState(m, u, dt) ==
    LET w1 == MathMin(m.w_off, MathMax(m.w_on, VTEAM_step(m, u, dt)))
    IN  VTEAM_updateMemristance([m EXCEPT !.w = w1])

\* mutant: the exponent has the sign of the memristance law
VTEAM_getCurrent_SignSlip(m, u) ==
    LET lambda  == MathLog(FDiv(m.R_off, m.R_on))
        expTerm == MathExp(FMul(FDiv(lambda, FSub(m.w_off, m.w_on)),
                                FSub(m.w, m.w_on)))
    IN  FMul(FDiv(u, m.R_on), expTerm)

VTEAM_getCurrent(m, u) ==
    LET lambda  == MathLog(FDiv(m.R_off, m.R_on))
        expTerm == MathExp(FMul(FDiv(FNeg(lambda), FSub(m.w_off, m.w_on)),
                                FSub(m.w, m.w_on)))
    IN  FMul(FDiv(u, m.R_on), expTerm)

-----------------------------------------------------------------------------
(* class MMSMemristor.  The elementary charge q and Boltzmann's constant k  *)
(* are both scaled by 1e23 / 1.380649 and q rounded, which keeps q / k.     *)

\* mutant: the OFF branch is subtracted
MMS_updateMemristance_Minus(m) ==
    LET W == FSub(FDiv(m.x, m.R_on), FDiv(FSub(One, m.x), m.R_off))
    IN  [m EXCEPT !.W = W, !.M = FDiv(One, W)]

MMS_updateMemristance(m) ==
    LET W == FAdd(FDiv(m.x, m.R_on), FDiv(FSub(One, m.x), m.R_off))
    IN  [m EXCEPT !.W = W, !.M = FDiv(One, W)]

MMSMemristor(R_on, R_off, U_on, U_off, tau, T, x_init_arg) ==
    LET x_init == Default(x_init_arg, Zero)
    IN  MMS_updateMemristance(
          [kind |-> "mms", R_on |-> R_on, R_off |-> R_off, U_on |-> U_on,
           U_off |-> U_off, tau |-> tau, T |-> T,
           q |-> Num(11605), k |-> One,
           x |-> MathMax(Zero, MathMin(ToNumber(x_init), One)),
           M |-> NaN, W |-> NaN])

\* this.x += N_on - N_off: the state variable before it is clamped
MMS_step(m, V, dt) ==
    LET alpha == FDiv(dt, m.tau)
        beta  == FDiv(m.q, FMul(m.k, m.T))
        P_on  == FDiv(alpha,
                      FAdd(One, MathExp(FMul(FNeg(beta), FSub(V, m.U_on)))))
        P_off == FMul(alpha,
                      FSub(One,
                           FDiv(One,
                                FAdd(One,
                                     MathExp(FMul(FNeg(beta), FAdd(V, m.U_off)))))))
        N_on  == FMul(P_on, FSub(One, m.x))
        N_off == FMul(P_off, m.x)
    IN  FAdd(m.x, FSub(N_on, N_off))

\* mutant: alpha = dt / tau is stored in this.tau
MMS_updateState_StoresAlpha(m, V, dt) ==
    LET x1 == MMS_step(m, V, dt)
        x2 == MathMax(Zero, MathMin(x1, One))
    IN  MMS_updateMemristance([m EXCEPT !.x = x2, !.tau = FDiv(dt, m.tau)])

MMS_updateState(m, V, dt) ==
    LET x1 == MMS_step(m, V, dt)
        x2 == MathMax(Zero, MathMin(x1, One))
    IN  MMS_updateMemristance([m EXCEPT !.x = x2])

MMS_getCurrent(m, V) == FMul(V, m.W)

-----------------------------------------------------------------------------
(* class YakopcicMemristor; P is the record of the constructor's arguments  *)
(* other than x_init                                                        *)

Yakopcic_updateMemristance(m) ==
    LET W == FMul(FMul(m.a1, m.x), MathSinh(m.b))
    IN  [m EXCEPT !.W = W, !.M = FDiv(One, W)]

YakopcicMemristor(P, x_init_arg) ==
    LET x_init == Default(x_init_arg, Zero)
    IN  Yakopcic_updateMemristance(
          [kind |-> "yakopcic", A_p |-> P.A_p, A_n |-> P.A_n,
           U_p |-> P.U_p, U_n |-> P.U_n,
           alpha_p |-> P.alpha_p, alpha_n |-> P.alpha_n,
           x_p |-> P.x_p, x_n |-> P.x_n, a1 |-> P.a1, a2 |-> P.a2, b |-> P.b,
           x_on |-> P.x_on,
           x |-> MathMin(One, MathMax(P.x_on, ToNumber(x_init))),
           M |-> NaN, W |-> NaN])

Yakopcic_g(m, u) ==
    IF FGt(u, m.U_p)
    THEN FMul(m.A_p, FSub(MathExp(u), MathExp(m.U_p)))
    ELSE IF FLt(u, FNeg(m.U_n))
    THEN FMul(FNeg(m.A_n), FSub(MathExp(FNeg(u)), MathExp(m.U_n)))
    ELSE Zero

Yakopcic_f_p(m, x) ==
    IF FGe(x, m.x_p)
    THEN LET wp == FAdd(FDiv(FSub(m.x_p, x), FSub(One, m.x_p)), One)
         IN  FMul(MathExp(FMul(FNeg(m.alpha_p), FSub(x, m.x_p))), wp)
    ELSE One

Yakopcic_f_n(m, x) ==
    IF FLe(x, FSub(One, m.x_n))
    THEN LET wn == FDiv(x, FSub(One, m.x_n))
         IN  FMul(MathExp(FMul(m.alpha_n, FSub(FAdd(x, m.x_n), One))), wn)
    ELSE One

Yakopcic_f(m, x, u) == IF FGe(u, Zero) THEN Yakopcic_f_p(m, x) ELSE Yakopcic_f_n(m, x)

\* this.x + dx * dt: the argument of the clamp
Yakopcic_step(m, u, dt) ==
    LET dx == FMul(Yakopcic_g(m, u), Yakopcic_f(m, m.x, u))
    IN  FAdd(m.x, FMul(dx, dt))

\* mutant: M and W are not recomputed after the step
Yakopcic_updateState_StaleM(m, u, dt) ==
    LET x1 == MathMin(One, MathMax(m.x_on, Yakopcic_step(m, u, dt)))
    IN  [m EXCEPT !.x = x1]

Yakopcic_updateState(m, u, dt) ==
    LET x1 == MathMin(One, MathMax(m.x_on, Yakopcic_step(m, u, dt)))
    IN  Yakopcic_updateMemristance([m EXCEPT !.x = x1])

Yakopcic_getCurrent(m, u) ==
    IF FGe(u, Zero)
    THEN FMul(FMul(m.a1, m.x), MathSinh(FMul(m.b, u)))
    ELSE FMul(FMul(m.a2, m.x), MathSinh(FMul(m.b, u)))

-----------------------------------------------------------------------------
(* The method call memristor.m(...) dispatches on the object's class *)

getCurrent(m, V) ==
    CASE m.kind = "biolek"   -> Biolek_getCurrent(m, V)
      [] m.kind = "joglekar" -> Joglekar_getCurrent(m, V)
      [] m.kind = "linear"   -> Linear_getCurrent(m, V)
      [] m.kind = "vteam"    -> VTEAM_getCurrent(m, V)
      [] m.kind = "mms"      -> MMS_getCurrent(m, V)
      [] m.kind = "yakopcic" -> Yakopcic_getCurrent(m, V)

\* the state variable and the closed domain the class clamps it into
StateVar(m) == IF m.kind \in {"mms", "yakopcic"} THEN m.x ELSE m.w

Lo(m) ==
    CASE m.kind \in {"biolek", "joglekar", "linear"} -> Zero
      [] m.kind = "vteam"    -> m.w_on
      [] m.kind = "mms"      -> Zero
      [] m.kind = "yakopcic" -> m.x_on

Hi(m) ==
    CASE m.kind \in {"biolek", "joglekar", "linear"} -> m.D
      [] m.kind = "vteam"    -> m.w_off
      [] m.kind = "mms"      -> One
      [] m.kind = "yakopcic" -> One

\* the value updateState hands to its clamp
step(m, V, dt) ==
    CASE m.kind = "biolek"   -> Biolek_step(m, V, dt)
      [] m.kind = "joglekar" -> Joglekar_step(m, V, dt)
      [] m.kind = "linear"   -> Linear_step(m, V, dt)
      [] m.kind = "vteam"    -> VTEAM_step(m, V, dt)
      [] m.kind = "mms"      -> MMS_step(m, V, dt)
      [] m.kind = "yakopcic" -> Yakopcic_step(m, V, dt)

updateState(m, V, dt) ==
    CASE m.kind = "biolek"   -> Biolek_updateState(m, V, dt)
      [] m.kind = "joglekar" -> Joglekar_updateState(m, V, dt)
      [] m.kind = "linear"   -> Linear_updateState(m, V, dt)
      [] m.kind = "vteam"    -> VTEAM_updateState(m, V, dt)
      [] m.kind = "mms"      -> MMS_updateState(m, V, dt)
      [] m.kind = "yakopcic" -> Yakopcic_updateState(m, V, dt)

-----------------------------------------------------------------------------
(* Waveform generators.  Math.PI is the rational 22/7; Math.sin(a) is SinPi *)
(* of a / Math.PI.                                                          *)

MathPI == Rat(22, 7)

MathSin(a) == SinPi(FDiv(a, MathPI))

\* mutant: an unrecognised type falls through to the square wave
generateWaveform_DefaultSquare(type, t, frequency, amplitude) ==
    LET omega == FMul(FMul(Num(2), MathPI), frequency)
    IN  IF type = "sine"
        THEN [k \in DOMAIN t |-> FMul(amplitude, MathSin(FMul(omega, t[k])))]
        ELSE [k \in DOMAIN t |->
                FMul(amplitude, MathSign(MathSin(FMul(omega, t[k]))))]

generateWaveform(type, t, frequency, amplitude) ==
    LET omega == FMul(FMul(Num(2), MathPI), frequency)
        phase(time) == FMod(FMul(omega, time), FMul(Num(2), MathPI))
    IN  CASE type = "sine" ->
               [k \in DOMAIN t |-> FMul(amplitude, MathSin(FMul(omega, t[k])))]
          [] type = "square" ->
               [k \in DOMAIN t |->
                  FMul(amplitude, MathSign(MathSin(FMul(omega, t[k]))))]
          [] type = "triangle" ->
               [k \in DOMAIN t |->
                  IF FLt(phase(t[k]), MathPI)
                  THEN FMul(amplitude,
                            FSub(FDiv(FMul(Num(2), phase(t[k])), MathPI), One))
                  ELSE FMul(amplitude,
                            FSub(Num(3), FDiv(FMul(Num(2), phase(t[k])), MathPI)))]
          [] type = "sawtooth" ->
               [k \in DOMAIN t |->
                  FMul(amplitude,
                       FSub(FDiv(FMul(Num(2), phase(t[k])),
                                 FMul(Num(2), MathPI)), One))]
          [] OTHER ->
               [k \in DOMAIN t |-> FMul(amplitude, MathSin(FMul(omega, t[k])))]

\* Array.from({ length: numPoints }, (_, i) => i * dt); the length of an
\* array-like is ToLength(numPoints): 0 for NaN and for a negative number
TimeVector(numPoints, h) ==
    LET len == IF numPoints > 0 THEN numPoints ELSE 0
    IN  [k \in 1..len |-> FMul(Num(k - 1), h)]

-----------------------------------------------------------------------------
(* SimulatorUI.runSimulation: the memristor the timer callback creates from *)
(* the control values c (parseFloat of a control's value is the number the  *)
(* record holds); Undefined when no case of the switch matches              *)

CreateMemristor(c) ==
    CASE c.modelSelect = "biolek" ->
           BiolekMemristor(c.muV, c.D, c.rOn, c.rOff, Null, c.p)
      [] c.modelSelect = "joglekar" ->
           JoglekarMemristor(c.muV, c.D, c.rOn, c.rOff, Null, c.p)
      [] c.modelSelect = "linear" ->
           LinearIonDriftMemristor(c.muV, c.D, c.rOn, c.rOff, Undefined)
      [] c.modelSelect = "vteam" ->
           VTEAMMemristor(
             [k_off |-> c.vtKOff, k_on |-> c.vtKOn, alpha_off |-> c.vtAlphaOff,
              alpha_on |-> c.vtAlphaOn, w_off |-> c.vtWOff, w_on |-> c.vtWOn,
              a_off |-> c.vtAOff, a_on |-> c.vtAOn, w_c |-> c.vtWC,
              u_off |-> c.vtUOff, u_on |-> c.vtUOn,
              R_on |-> c.rOn, R_off |-> c.rOff], Null)
      [] c.modelSelect = "mms" ->
           MMSMemristor(c.rOn, c.rOff, c.uOn, c.uOff, c.tau, c.temperature,
                        Undefined)
      [] c.modelSelect = "yakopcic" ->
           YakopcicMemristor(
             [A_p |-> c.ycAp, A_n |-> c.ycAn, U_p |-> c.ycUp, U_n |-> c.ycUn,
              alpha_p |-> c.ycAlphaP, alpha_n |-> c.ycAlphaN,
              x_p |-> c.ycXp, x_n |-> c.ycXn, a1 |-> c.ycA1, a2 |-> c.ycA2,
              b |-> c.ycB, x_on |-> c.ycXOn], Rat(11, 100))
      [] OTHER -> Undefined

\* microseconds to seconds: * 1e-6
Micro == Rat(1, 1000000)

-----------------------------------------------------------------------------
(* Inputs *)

\* longest voltage sequence handed to simulateMemristor
MaxLen == 2

\* applied voltages: zero, on the positive threshold, beyond the thresholds,
\* and so large that Math.exp overflows
Volts == {Num(-9), Num(-2), Zero, One, Num(2), Num(9)}

\* time steps (dt > 0)
DtSet == {One, Num(2)}

\* the initial-state argument: omitted, null, below, inside and above the domains
InitArgs == {Undefined, Null, Num(-3), Rat(1, 2), Num(3)}

IonDriftParams ==
    {[mu_v |-> Num(2), D |-> Num(2), R_ON |-> One, R_OFF |-> Num(3), p |-> 1]}

VTEAMParams ==
    {[k_off |-> One, k_on |-> Num(-1), alpha_off |-> 3, alpha_on |-> 1,
      w_off |-> wb[2], w_on |-> wb[1], a_off |-> One, a_on |-> One, w_c |-> One,
      u_off |-> One, u_on |-> Num(-1), R_on |-> One, R_off |-> Num(4)]
        : wb \in {<<Zero, Num(2)>>, <<Num(-1), One>>}}

MMSParams ==
    {[R_on |-> One, R_off |-> Num(3), U_on |-> One, U_off |-> One,
      tau |-> One, T |-> Num(11605)]}

YakopcicParams ==
    {[A_p |-> Rat(1, 4), A_n |-> Rat(1, 4), U_p |-> One, U_n |-> One,
      alpha_p |-> One, alpha_n |-> One, x_p |-> Rat(1, 2), x_n |-> Rat(1, 2),
      a1 |-> One, a2 |-> Num(2), b |-> One, x_on |-> xo]
        : xo \in {Rat(-1, 4), Zero, Rat(1, 4)}}

\* every object a constructor call can build from the inputs above
NewWith(a) ==
    {BiolekMemristor(P.mu_v, P.D, P.R_ON, P.R_OFF, a, P.p) : P \in IonDriftParams}
    \cup {JoglekarMemristor(P.mu_v, P.D, P.R_ON, P.R_OFF, a, P.p) : P \in IonDriftParams}
    \cup {LinearIonDriftMemristor(P.mu_v, P.D, P.R_ON, P.R_OFF, a) : P \in IonDriftParams}
    \cup {VTEAMMemristor(P, a) : P \in VTEAMParams}
    \cup {MMSMemristor(P.R_on, P.R_off, P.U_on, P.U_off, P.tau, P.T, a) : P \in MMSParams}
    \cup {YakopcicMemristor(P, a) : P \in YakopcicParams}

VoltSeqs == UNION {[1..n -> Volts] : n \in 0..MaxLen}

\* arguments of generateWaveform
WaveTypes == {"sine", "square", "triangle", "sawtooth", "bogus", ""}

TimeSteps == {Rat(1, 12), Rat(1, 4), Rat(1, 3)}

Frequencies == {One, Num(2)}

Amplitudes == {One, Num(-2)}

\* pending timer callbacks
MaxTimers == 2

\* control values: everything but the selections and the duration is fixed;
\* the time step is one second and the duration half a second or two seconds
\* (the sliders count microseconds)
BaseControls ==
    [modelSelect |-> "linear", waveformSelect |-> "sine",
     frequency |-> Rat(1, 12), amplitude |-> Num(4),
     muV |-> Num(2), D |-> Num(2), rOn |-> One, rOff |-> Num(3),
     uOn |-> One, uOff |-> One, tau |-> One, temperature |-> Num(11605),
     vtKOff |-> One, vtKOn |-> Num(-1), vtAlphaOff |-> 3, vtAlphaOn |-> 1,
     vtWOff |-> Num(2), vtWOn |-> Zero, vtAOff |-> One, vtAOn |-> One,
     vtWC |-> One, vtUOff |-> One, vtUOn |-> Num(-1), p |-> 1,
     ycAp |-> Rat(1, 4), ycAn |-> Rat(1, 4), ycUp |-> One, ycUn |-> One,
     ycAlphaP |-> One, ycAlphaN |-> One, ycXp |-> Rat(1, 2), ycXn |-> Rat(1, 2),
     ycA1 |-> One, ycA2 |-> Num(2), ycB |-> One, ycXOn |-> Zero,
     duration |-> Num(2000000), timeStep |-> Num(1000000)]

ModelKinds == {"linear", "biolek", "joglekar", "vteam", "mms", "yakopcic"}

Controls ==
    {[BaseControls EXCEPT !.modelSelect = m, !.waveformSelect = w, !.duration = d]
        : m \in ModelKinds \cup {"bogus"},
          w \in {"sine", "triangle"},
          d \in {Num(500000), Num(2000000)}}

-----------------------------------------------------------------------------
(* State *)

VARIABLES
    memristor,  \* the memristor object, Undefined before one is constructed
    fresh,      \* history: the object as its constructor returned it
    init_arg,   \* history: the initial-state argument the constructor was given
    prev,       \* history: the object before its latest updateState call
    V_seq,      \* simulateMemristor's arguments
    dt,
    I_mem,      \* simulateMemristor's result array
    i,          \* simulateMemristor's loop index
    pc,         \* "idle", "loop" (at the loop test), "update" (between the
                \* push and the updateState call), "returned"
    type,       \* generateWaveform's arguments
    t,
    frequency,
    amplitude,
    controls,   \* the values of the page's controls
    statusText, \* the text of the status element
    chart,      \* the trace plotHysteresis last drew, "none" before
    timers,     \* timer callbacks runSimulation has scheduled, not yet run
    earlier     \* history: the controls and the result of one earlier run

\* Plotly.newPlot('chart', [], ...): a chart without a trace
NoTrace == [traces |-> 0, x |-> <<>>, y |-> <<>>]

NoRun == [logged |-> FALSE, controls |-> BaseControls, I_mem |-> <<>>]

simVars == <<memristor, fresh, init_arg, prev, V_seq, dt, I_mem, i, pc>>

waveVars == <<type, t, frequency, amplitude>>

uiVars == <<controls, statusText, chart, timers, earlier>>

vars == <<simVars, waveVars, uiVars>>

Init ==
    /\ memristor = Undefined
    /\ fresh = Undefined
    /\ init_arg = Undefined
    /\ prev = Undefined
    /\ V_seq = <<>>
    /\ dt = One
    /\ I_mem = <<>>
    /\ i = 0
    /\ pc = "idle"
    /\ type = "sine"
    /\ t = <<>>
    /\ frequency = One
    /\ amplitude = One
    /\ controls = BaseControls
    /\ statusText = ""
    /\ chart = NoTrace
    /\ timers = 0
    /\ earlier = NoRun

\* new XxxMemristor(...)
Construct ==
    /\ pc \in {"idle", "returned"}
    /\ \E a \in InitArgs : \E m \in NewWith(a) :
         /\ memristor' = m
         /\ fresh' = m
         /\ init_arg' = a
    /\ prev' = Undefined
    /\ V_seq' = <<>>
    /\ dt' = One
    /\ I_mem' = <<>>
    /\ i' = 0
    /\ pc' = "idle"
    /\ UNCHANGED <<waveVars, uiVars>>

\* simulateMemristor(memristor, V_seq, dt): entry
SimCall ==
    /\ pc = "idle"
    /\ memristor # Undefined
    /\ prev = Undefined
    /\ \E vs \in VoltSeqs, h \in DtSet :
         /\ V_seq' = vs
         /\ dt' = h
    /\ I_mem' = <<>>
    /\ i' = 0
    /\ pc' = "loop"
    /\ UNCHANGED <<memristor, fresh, init_arg, prev, waveVars, uiVars>>

\* mutant: the current is read after the state update
SimRead_AfterUpdate ==
    /\ pc = "loop"
    /\ i < Len(V_seq)
    /\ I_mem' = Append(I_mem,
                       getCurrent(updateState(memristor, V_seq[i + 1], dt),
                                  V_seq[i + 1]))
    /\ pc' = "update"
    /\ UNCHANGED <<memristor, fresh, init_arg, prev, V_seq, dt, i, waveVars, uiVars>>

\* const current = memristor.getCurrent(V_seq[i]); I_mem.push(current);
SimRead ==
    /\ pc = "loop"
    /\ i < Len(V_seq)
    /\ memristor # Undefined
    /\ I_mem' = Append(I_mem, getCurrent(memristor, V_seq[i + 1]))
    /\ pc' = "update"
    /\ UNCHANGED <<memristor, fresh, init_arg, prev, V_seq, dt, i, waveVars, uiVars>>

\* memristor.updateState(V_seq[i], dt); i++
SimUpdate ==
    /\ pc = "update"
    /\ memristor' = updateState(memristor, V_seq[i + 1], dt)
    /\ prev' = memristor
    /\ i' = i + 1
    /\ pc' = "loop"
    /\ UNCHANGED <<fresh, init_arg, V_seq, dt, I_mem, waveVars, uiVars>>

\* mutant: the loop stops one sample early
SimReturn_Early ==
    /\ pc = "loop"
    /\ ~(i < Len(V_seq) - 1)
    /\ pc' = "returned"
    /\ UNCHANGED <<memristor, fresh, init_arg, prev, V_seq, dt, I_mem, i, waveVars, uiVars>>

\* return I_mem;
SimReturn ==
    /\ pc = "loop"
    /\ ~(i < Len(V_seq))
    /\ pc' = "returned"
    /\ UNCHANGED <<memristor, fresh, init_arg, prev, V_seq, dt, I_mem, i, waveVars, uiVars>>

Next == Construct \/ SimCall \/ SimRead \/ SimUpdate \/ SimReturn

Spec == Init /\ [][Next]_vars

-----------------------------------------------------------------------------
(* generateWaveform applied to its arguments *)

GenerateWaveform ==
    /\ pc = "idle"
    /\ \E ty \in WaveTypes, n \in 0..(MaxLen + 1), h \in TimeSteps,
          f \in Frequencies, A \in Amplitudes :
         /\ type' = ty
         /\ t' = TimeVector(n, h)
         /\ frequency' = f
         /\ amplitude' = A
         /\ V_seq' = generateWaveform(ty, TimeVector(n, h), f, A)
    /\ UNCHANGED <<memristor, fresh, init_arg, prev, dt, I_mem, i, pc, uiVars>>

NextWave == GenerateWaveform

SpecWave == Init /\ [][NextWave]_vars

-----------------------------------------------------------------------------
(* SimulatorUI: the page after DOMContentLoaded.  A timer callback runs to  *)
(* completion before the next event is handled, so the event handlers are   *)
(* enabled only while no callback is running (pc = "idle").                 *)

\* a control's input or change event: the handler calls runSimulation()
ControlInput ==
    /\ pc = "idle"
    /\ timers < MaxTimers
    /\ controls' \in Controls
    /\ statusText' = "Running simulation..."
    /\ timers' = timers + 1
    /\ UNCHANGED <<simVars, waveVars, chart, earlier>>

\* runSimulation(), called with the controls as they are (the constructor, the
\* theme handlers): sets the status and schedules the callback
RunSimulation ==
    /\ pc = "idle"
    /\ timers < MaxTimers
    /\ statusText' = "Running simulation..."
    /\ timers' = timers + 1
    /\ UNCHANGED <<simVars, waveVars, controls, chart, earlier>>

\* mutant: the callback keeps the memristor of the run before when the model
\* selection has not changed
TimerCallback_KeepMemristor ==
    /\ pc = "idle"
    /\ timers > 0
    /\ timers' = timers - 1
    /\ LET duration  == FMul(controls.duration, Micro)
           h         == FMul(controls.timeStep, Micro)
           m         == CreateMemristor(controls)
           numPoints == FloorInt(FDiv(duration, h))
           tv        == TimeVector(numPoints, h)
       IN  /\ memristor' = IF memristor # Undefined /\ m # Undefined
                              /\ memristor.kind = m.kind
                           THEN memristor ELSE m
           /\ fresh' = m
           /\ init_arg' = Undefined
           /\ prev' = Undefined
           /\ type' = controls.waveformSelect
           /\ t' = tv
           /\ frequency' = controls.frequency
           /\ amplitude' = controls.amplitude
           /\ V_seq' = generateWaveform(controls.waveformSelect, tv,
                                        controls.frequency, controls.amplitude)
           /\ dt' = h
    /\ I_mem' = <<>>
    /\ i' = 0
    /\ pc' = "loop"
    /\ UNCHANGED <<controls, statusText, chart, earlier>>

\* the timer callback, from reading the controls to the call of
\* simulateMemristor
TimerCallback ==
    /\ pc = "idle"
    /\ timers > 0
    /\ timers' = timers - 1
    /\ LET duration  == FMul(controls.duration, Micro)
           h         == FMul(controls.timeStep, Micro)
           m         == CreateMemristor(controls)
           numPoints == FloorInt(FDiv(duration, h))
           tv        == TimeVector(numPoints, h)
       IN  /\ memristor' = m
           /\ fresh' = m
           /\ init_arg' = Undefined
           /\ prev' = Undefined
           /\ type' = controls.waveformSelect
           /\ t' = tv
           /\ frequency' = controls.frequency
           /\ amplitude' = controls.amplitude
           /\ V_seq' = generateWaveform(controls.waveformSelect, tv,
                                        controls.frequency, controls.amplitude)
           /\ dt' = h
    /\ I_mem' = <<>>
    /\ i' = 0
    /\ pc' = "loop"
    /\ UNCHANGED <<controls, statusText, chart, earlier>>

\* memristor.getCurrent on an undefined memristor throws a TypeError, which
\* the callback's catch turns into the error status
SimThrow ==
    /\ pc = "loop"
    /\ i < Len(V_seq)
    /\ memristor = Undefined
    /\ statusText' = "Simulation error"
    /\ pc' = "idle"
    /\ UNCHANGED <<memristor, fresh, init_arg, prev, V_seq, dt, I_mem, i,
                   waveVars, controls, chart, timers, earlier>>

\* `Simulation complete (${numPoints} points)`
CompleteText(numPoints) ==
    "Simulation complete (" \o ToString(numPoints) \o " points)"

\* this.plotHysteresis(V_seq, I_mem); statusText = `Simulation complete ...`
PlotAndComplete ==
    /\ pc = "returned"
    /\ chart' = [traces |-> 1, x |-> V_seq, y |-> I_mem]
    /\ statusText' = CompleteText(Len(t))
    /\ earlier' \in {earlier,
                     [logged |-> TRUE, controls |-> controls, I_mem |-> I_mem]}
    /\ pc' = "idle"
    /\ UNCHANGED <<memristor, fresh, init_arg, prev, V_seq, dt, I_mem, i,
                   waveVars, controls, timers>>

NextUI ==
    \/ ControlInput
    \/ RunSimulation
    \/ TimerCallback
    \/ SimRead
    \/ SimUpdate
    \/ SimReturn
    \/ SimThrow
    \/ PlotAndComplete

\* new SimulatorUI(): initializeChart() and runSimulation() have been called
InitUI ==
    /\ memristor = Undefined
    /\ fresh = Undefined
    /\ init_arg = Undefined
    /\ prev = Undefined
    /\ V_seq = <<>>
    /\ dt = One
    /\ I_mem = <<>>
    /\ i = 0
    /\ pc = "idle"
    /\ type = "sine"
    /\ t = <<>>
    /\ frequency = One
    /\ amplitude = One
    /\ controls \in Controls
    /\ statusText = "Running simulation..."
    /\ chart = NoTrace
    /\ timers = 1
    /\ earlier = NoRun

SpecUI == InitUI /\ [][NextUI]_vars

-----------------------------------------------------------------------------
(* Properties *)

Built == memristor # Undefined

\* some updateState call has been made on the object
Advanced == memristor # Undefined /\ prev # Undefined

\* the voltage of the latest updateState call (when Advanced)
Applied == V_seq[i]

InDomain(m) == FLe(Lo(m), StateVar(m)) /\ FLe(StateVar(m), Hi(m))

\* What the clamp does establish: after construction the state variable lies
\* in its closed domain; after every updateState call it is the step value
\* clamped to the nearest bound (an infinite step included), so it lies in the
\* domain, unless the step value is NaN, and then the state variable is NaN.
C1_DomainOrNaN ==
    Built =>
      LET s == StateVar(memristor)
      IN  /\ IsNaN(s) \/ InDomain(memristor)
          /\ ~Advanced => InDomain(memristor)
          /\ Advanced =>
               LET r == step(prev, Applied, dt)
               IN  /\ IsNaN(s) <=> IsNaN(r)
                   /\ FLt(r, Lo(prev)) => s = Lo(prev)
                   /\ FGt(r, Hi(prev)) => s = Hi(prev)
                   /\ (FLe(Lo(prev), r) /\ FLe(r, Hi(prev))) => s = r

\* C1: after construction and after every updateState call the state variable
\* lies in its closed domain.
C1_Original == Built => InDomain(memristor)

\* a step past the upper bound has been clamped to it
C1_Witness ==
    /\ Advanced
    /\ FGt(step(prev, Applied, dt), Hi(prev))
    /\ IsFinite(step(prev, Applied, dt))
    /\ StateVar(memristor) = Hi(memristor)

\* the object after updateState has been called with vs[1], ..., vs[k]
RECURSIVE After(_, _, _, _)
After(m, vs, h, k) ==
    IF k = 0 THEN m ELSE updateState(After(m, vs, h, k - 1), vs[k], h)

\* C2: every reported current I_mem[k] is getCurrent(V_seq[k]) on the object
\* advanced by exactly the k-1 earlier samples in index order (the first on the
\* unadvanced object), and the object has had one updateState call per sample
\* already read, made after that sample's read.
C2_StepOrdering ==
    pc \in {"loop", "update", "returned"} =>
      /\ \A k \in 1..Len(I_mem) :
           I_mem[k] = getCurrent(After(fresh, V_seq, dt, k - 1), V_seq[k])
      /\ memristor = After(fresh, V_seq, dt, i)
      /\ Len(I_mem) = IF pc = "update" THEN i + 1 ELSE i

\* a run returned whose second current depends on the first sample's update
C2_Witness ==
    /\ pc = "returned"
    /\ Len(I_mem) >= 2
    /\ I_mem[2] # getCurrent(fresh, V_seq[2])
    /\ I_mem[2] # getCurrent(After(fresh, V_seq, dt, 2), V_seq[2])

\* memristance bounds as the expressions Math.min(R_on, R_off) and
\* Math.max(R_on, R_off) evaluate on the object: a property the object does
\* not have reads as undefined, which Math.min and Math.max turn into NaN
ResOn(m) ==
    IF "R_ON" \in DOMAIN m THEN m.R_ON
    ELSE IF "R_on" \in DOMAIN m THEN m.R_on ELSE NaN

ResOff(m) ==
    IF "R_OFF" \in DOMAIN m THEN m.R_OFF
    ELSE IF "R_off" \in DOMAIN m THEN m.R_off ELSE NaN

\* v / M and v * W for the object's present M and W
ReadoutLaw(m, v) == getCurrent(m, v) = FDiv(v, m.M) /\ getCurrent(m, v) = FMul(v, m.W)

\* C3 (as amended): for the five variants other than Yakopcic, in every
\* reachable state getCurrent(v) is v / M and v * W for every voltage v, and so
\* is every current simulateMemristor has just read.
C3_ReadoutLaw ==
    (Built /\ memristor.kind # "yakopcic") =>
      /\ \A v \in Volts : ReadoutLaw(memristor, v)
      /\ pc = "update" => I_mem[i + 1] = FDiv(V_seq[i + 1], memristor.M)

\* C3 as stated: the same for all six variants.
C3_Original == Built => \A v \in Volts : ReadoutLaw(memristor, v)

\* a VTEAM current read from an advanced state strictly inside the domain
C3_Witness ==
    /\ Advanced
    /\ pc = "update"
    /\ memristor.kind = "vteam"
    /\ FLt(memristor.w_on, memristor.w) /\ FLt(memristor.w, memristor.w_off)
    /\ I_mem[i + 1] # Zero
    /\ I_mem[i + 1] = FDiv(V_seq[i + 1], memristor.M)

\* C4 (as amended): at every state of the domain, both bounds included, M is
\* finite and strictly greater than 0 for the five variants other than
\* Yakopcic; for Yakopcic M = 1 / W is finite and strictly greater than 0 at
\* the states with x > 0, +Infinity at x = 0 (where W = 0) and negative at
\* x < 0 (which the domain holds when x_on < 0).
C4_Positivity ==
    (Built /\ InDomain(memristor)) =>
      IF memristor.kind = "yakopcic"
      THEN /\ FGt(memristor.x, Zero) =>
                IsFinite(memristor.M) /\ FGt(memristor.M, Zero)
           /\ memristor.x = Zero => memristor.M = PInf
           /\ FLt(memristor.x, Zero) =>
                IsFinite(memristor.M) /\ FLt(memristor.M, Zero)
      ELSE IsFinite(memristor.M) /\ FGt(memristor.M, Zero)

\* C4 as stated: M is finite and strictly greater than 0 at every state of
\* the domain.
C4_Original ==
    (Built /\ InDomain(memristor)) =>
      IsFinite(memristor.M) /\ FGt(memristor.M, Zero)

\* an updateState call has clamped an MMS object to a domain bound
C4_Witness ==
    /\ Advanced
    /\ memristor.kind = "mms"
    /\ memristor.x = One
    /\ ~InDomain([prev EXCEPT !.x = step(prev, Applied, dt)])
    /\ IsFinite(memristor.M) /\ FGt(memristor.M, Zero)

\* C5 (as amended): for the five variants that have an ON and an OFF
\* resistance (all but Yakopcic), min(R_on, R_off) <= M <= max(R_on, R_off) in
\* every reachable state whose state variable is a number, and M is NaN when
\* the state variable is NaN.
C5_ResistanceBound ==
    (Built /\ memristor.kind # "yakopcic") =>
      IF IsNaN(StateVar(memristor))
      THEN IsNaN(memristor.M)
      ELSE /\ FLe(MathMin(ResOn(memristor), ResOff(memristor)), memristor.M)
           /\ FLe(memristor.M, MathMax(ResOn(memristor), ResOff(memristor)))

\* C5 as stated: the same for all six variants.
C5_Original ==
    Built =>
      /\ FLe(MathMin(ResOn(memristor), ResOff(memristor)), memristor.M)
      /\ FLe(memristor.M, MathMax(ResOn(memristor), ResOff(memristor)))

\* an advanced VTEAM object strictly inside its domain, M strictly between
C5_Witness ==
    /\ Advanced
    /\ memristor.kind = "vteam"
    /\ memristor.w # prev.w
    /\ FLt(memristor.R_on, memristor.M) /\ FLt(memristor.M, memristor.R_off)

\* C6: when simulateMemristor returns, the current sequence is as long as the
\* voltage sequence (the empty one included) and the object has been advanced
\* once per sample.
C6_LengthInvariance ==
    pc = "returned" =>
      /\ Len(I_mem) = Len(V_seq)
      /\ i = Len(V_seq)
      /\ memristor = After(fresh, V_seq, dt, Len(V_seq))

\* a run over at least two samples has returned
C6_Witness == pc = "returned" /\ Len(V_seq) >= 2 /\ Len(I_mem) = Len(V_seq)

\* C10 (as amended): constructed without an initial state (omitted, or null),
\* an ion-drift object starts at D / 2 and the other variants start at the
\* point of their domain nearest to 0: the domain floor when it is >= 0, and 0
\* itself when the floor is below 0.
C10_DefaultInitialState ==
    (fresh # Undefined /\ init_arg \in {Undefined, Null}) =>
      LET s == StateVar(fresh)
      IN  IF fresh.kind \in {"biolek", "joglekar", "linear"}
          THEN s = FDiv(fresh.D, Num(2))
          ELSE /\ InDomain(fresh)
               /\ FGe(Lo(fresh), Zero) => s = Lo(fresh)
               /\ (FLt(Lo(fresh), Zero) /\ FGe(Hi(fresh), Zero)) => s = Zero

\* C10 as stated: the other variants start at the domain floor.
C10_Original ==
    (fresh # Undefined /\ init_arg \in {Undefined, Null}) =>
      LET s == StateVar(fresh)
      IN  IF fresh.kind \in {"biolek", "joglekar", "linear"}
          THEN s = FDiv(fresh.D, Num(2))
          ELSE s = Lo(fresh)

\* a Yakopcic object built by default on a floor above 0
C10_Witness ==
    /\ fresh # Undefined
    /\ init_arg = Undefined
    /\ fresh.kind = "yakopcic"
    /\ FGt(fresh.x_on, Zero)
    /\ fresh.x = fresh.x_on

-----------------------------------------------------------------------------
(* C9 *)

KnownWaveforms == {"sine", "square", "triangle", "sawtooth"}

\* C9: for a waveform name outside sine, square, triangle and sawtooth,
\* generateWaveform returns a sequence as long as t whose k-th element is
\* amplitude * sin(2 pi frequency t[k]), which is what the name "sine" returns
C9_UnknownWaveformIsSine ==
    type \notin KnownWaveforms =>
        /\ Len(V_seq) = Len(t)
        /\ \A k \in 1..Len(t) :
              V_seq[k] = FMul(amplitude,
                              MathSin(FMul(FMul(FMul(Num(2), MathPI), frequency),
                                           t[k])))
        /\ V_seq = generateWaveform("sine", t, frequency, amplitude)

\* an unknown name applied to a time vector on which the sine differs from
\* the square, the triangle and the sawtooth
C9_Witness ==
    /\ type = "bogus"
    /\ Len(t) = MaxLen
    /\ V_seq # generateWaveform("square", t, frequency, amplitude)
    /\ V_seq # generateWaveform("triangle", t, frequency, amplitude)
    /\ V_seq # generateWaveform("sawtooth", t, frequency, amplitude)
    /\ \E k \in 1..Len(t) : V_seq[k] # Zero

-----------------------------------------------------------------------------
(* C7, C8 *)

\* C7: a run that has returned its current sequence under the same control
\* values as a logged earlier run of the session has returned the same
\* current sequence, whatever ran in between
C7_Determinism ==
    (pc = "returned" /\ earlier.logged /\ earlier.controls = controls)
        => I_mem = earlier.I_mem

\* a second run with the controls of the logged one, after the logged run
\* advanced its own memristor, with a nonempty result
C7_Witness ==
    /\ pc = "returned"
    /\ earlier.logged
    /\ earlier.controls = controls
    /\ Len(I_mem) = 2
    /\ I_mem[2] # Zero
    /\ memristor # fresh
    /\ chart.traces = 1
    /\ chart.y # I_mem

\* C8: while an unknown model kind is selected, no run returns a
\* result to plot and the status never reads 'Simulation complete'
C8_UnknownKindIsError ==
    controls.modelSelect \notin ModelKinds =>
        /\ pc # "returned"
        /\ \A n \in 0..Len(t) : statusText # CompleteText(n)

-----------------------------------------------------------------------------
(* C11 *)

AtBound(m) == StateVar(m) = Lo(m) \/ StateVar(m) = Hi(m)

\* the step value of the latest updateState call does not point into the
\* domain from the bound the object was at
Outward ==
    LET r == step(prev, Applied, dt)
    IN  \/ StateVar(prev) = Lo(prev) /\ FLe(r, Lo(prev))
        \/ StateVar(prev) = Hi(prev) /\ FGe(r, Hi(prev))

\* C11 (as amended): a Joglekar object whose w equals 0 or D keeps that w
\* through every updateState call (its window is 0 at both bounds), NaN from
\* an overflowing rate apart; an object of any variant at a bound stays at the
\* bound exactly when the step value does not point into the domain.
C11_AbsorbingJoglekar ==
    (Advanced /\ AtBound(prev)) =>
      /\ prev.kind = "joglekar" =>
           \/ StateVar(memristor) = StateVar(prev)
           \/ IsNaN(StateVar(memristor))
      /\ StateVar(memristor) = StateVar(prev) <=> Outward

\* C11: for every variant, an updateState call on an object at a bound of its
\* domain leaves the state at that bound.
C11_Original ==
    (Advanced /\ AtBound(prev)) => StateVar(memristor) = StateVar(prev)

\* a Joglekar object at w = D has been updated under a negative voltage, and
\* a second time, and is still at D
C11_Witness ==
    /\ Advanced
    /\ i = 2
    /\ prev.kind = "joglekar"
    /\ fresh.w = fresh.D
    /\ prev.w = prev.D
    /\ FLt(V_seq[1], Zero) /\ FLt(V_seq[2], Zero)
    /\ memristor.w = memristor.D

-----------------------------------------------------------------------------
(* C12 *)

\* the memristance law of each variant, as a function of the state variable
MemLaw(m) ==
    CASE m.kind \in {"biolek", "joglekar", "linear"} ->
           FAdd(FMul(m.R_ON, FDiv(m.w, m.D)),
                FMul(m.R_OFF, FSub(One, FDiv(m.w, m.D))))
      [] m.kind = "vteam" ->
           FMul(m.R_on,
                MathExp(FMul(FDiv(MathLog(FDiv(m.R_off, m.R_on)),
                                  FSub(m.w_off, m.w_on)),
                             FSub(m.w, m.w_on))))
      [] m.kind = "mms" ->
           FDiv(One, FAdd(FDiv(m.x, m.R_on), FDiv(FSub(One, m.x), m.R_off)))
      [] m.kind = "yakopcic" ->
           FDiv(One, FMul(FMul(m.a1, m.x), MathSinh(m.b)))

\* the rate law of each rate-law variant at the state of m under voltage v;
\* the ion-drift current is v over the memristance law at that state
Rate(m, v) ==
    LET drift == FMul(FMul(m.mu_v, FDiv(m.R_ON, m.D)), FDiv(v, MemLaw(m)))
    IN  CASE m.kind = "linear"   -> drift
          [] m.kind = "biolek"   ->
               FMul(drift,
                    Biolek_windowFunction(m, FDiv(m.w, m.D), FDiv(v, MemLaw(m))))
          [] m.kind = "joglekar" ->
               FMul(drift, Joglekar_windowFunction(m, FDiv(m.w, m.D)))
          [] m.kind = "vteam"    ->
               IF FLt(Zero, m.u_off) /\ FGt(v, m.u_off)
               THEN FMul(FMul(m.k_off,
                              MathPow(FSub(FDiv(v, m.u_off), One), m.alpha_off)),
                         VTEAM_f_off(m, m.w))
               ELSE IF FLt(v, m.u_on) /\ FLt(m.u_on, Zero)
               THEN FMul(FMul(m.k_on,
                              MathPow(FSub(FDiv(v, m.u_on), One), m.alpha_on)),
                         VTEAM_f_on(m, m.w))
               ELSE Zero
          [] m.kind = "yakopcic" ->
               FMul(Yakopcic_g(m, v), Yakopcic_f(m, m.x, v))

\* r brought into [lo, hi]; NaN stays NaN
Clamp(lo, hi, r) ==
    IF IsNaN(r) THEN NaN
    ELSE IF FLt(r, lo) THEN lo
    ELSE IF FGt(r, hi) THEN hi
    ELSE r

\* C12: for the five rate-law variants an updateState(v, dt) call sets the
\* state to clamp(s_old + dt * rate(s_old, v)), the rate taken at the state
\* and the memristance before the step; a LinearIonDrift object built by
\* default has M_old = (R_ON + R_OFF) / 2 and its first step reaches
\* clamp(w_old + mu_v * (R_ON / D) * (V / M_old) * dt).
C12_ForwardEuler ==
    (Advanced /\ prev.kind # "mms") =>
      /\ StateVar(memristor) =
           Clamp(Lo(prev), Hi(prev),
                 FAdd(StateVar(prev), FMul(dt, Rate(prev, Applied))))
      /\ (prev.kind = "linear" /\ i = 1 /\ init_arg \in {Undefined, Null}) =>
           /\ prev.M = FDiv(FAdd(prev.R_ON, prev.R_OFF), Num(2))
           /\ memristor.w =
                Clamp(Zero, prev.D,
                      FAdd(prev.w,
                           FMul(FMul(FMul(prev.mu_v, FDiv(prev.R_ON, prev.D)),
                                     FDiv(Applied, prev.M)), dt)))

\* first step of a LinearIonDrift object built by default, to a state strictly
\* inside the domain
C12_Witness ==
    /\ Advanced
    /\ prev.kind = "linear" /\ i = 1 /\ init_arg = Undefined
    /\ prev.w = FDiv(prev.D, Num(2))
    /\ memristor.w # prev.w
    /\ FLt(Zero, memristor.w) /\ FLt(memristor.w, memristor.D)
    /\ memristor.w =
         FAdd(prev.w,
              FMul(FMul(FMul(prev.mu_v, FDiv(prev.R_ON, prev.D)),
                        FDiv(Applied, prev.M)), dt))

-----------------------------------------------------------------------------
(* C13 *)

\* C13: after construction and after every updateState call the stored M is
\* the variant's memristance law at the stored state variable and the stored
\* W is the reciprocal of the stored M.
C13_ReadoutsInSync ==
    Built =>
      /\ memristor.M = MemLaw(memristor)
      /\ memristor.W = Recip(memristor.M)

\* an updateState call has moved a Yakopcic object and its M
C13_Witness ==
    /\ Advanced
    /\ memristor.kind = "yakopcic"
    /\ memristor.x # prev.x
    /\ IsFinite(memristor.M) /\ IsFinite(prev.M)
    /\ memristor.M # prev.M
    /\ memristor.M = MemLaw(memristor)

-----------------------------------------------------------------------------
(* C14 *)

\* the fields of an object other than the state variable, M and W
ParamsOf(m) == [f \in DOMAIN m \ {"w", "x", "M", "W"} |-> m[f]]

\* C14: the step of simulateMemristor that calls getCurrent leaves the whole
\* object (state variable, M, W, parameters) as it was, and the step that
\* calls updateState leaves every field other than the state variable, M and
\* W as it was.
C14_Frame ==
    [][/\ (pc = "loop" /\ pc' = "update") => memristor' = memristor
       /\ (pc = "update" /\ pc' = "loop") =>
            ParamsOf(memristor') = ParamsOf(memristor)]_vars

\* an updateState call has changed the state variable and M of an MMS object,
\* the parameters are those of construction, and getCurrent has been called
\* on the changed object
C14_Witness ==
    /\ Advanced
    /\ pc = "update"
    /\ memristor.kind = "mms"
    /\ memristor.x # prev.x
    /\ memristor.M # prev.M
    /\ ParamsOf(memristor) = ParamsOf(fresh)

-----------------------------------------------------------------------------
(* C15 *)

\* voltage u lies inside the thresholds of m (VTEAM with u_on < 0 < u_off,
\* Yakopcic)
InDeadZone(m, u) ==
    \/ /\ m.kind = "vteam"
       /\ FLt(m.u_on, Zero) /\ FLt(Zero, m.u_off)
       /\ FLe(m.u_on, u) /\ FLe(u, m.u_off)
    \/ /\ m.kind = "yakopcic"
       /\ FLe(FNeg(m.U_n), u) /\ FLe(u, m.U_p)

\* C15: an updateState(u, dt) call with u inside the thresholds leaves the
\* state variable, M and W of a VTEAM or Yakopcic object unchanged, and while
\* every voltage applied so far lies inside the thresholds the state variable
\* is the initial one.
C15_DeadZone ==
    /\ (Advanced /\ InDeadZone(prev, Applied)) =>
         /\ StateVar(memristor) = StateVar(prev)
         /\ memristor.M = prev.M
         /\ memristor.W = prev.W
    /\ (Built /\ fresh # Undefined /\ pc \in {"loop", "update", "returned"}
          /\ \A k \in 1..i : InDeadZone(fresh, V_seq[k])) =>
         StateVar(memristor) = StateVar(fresh)

\* two updateState calls inside the thresholds, one at the threshold itself,
\* on a VTEAM object strictly inside its domain
C15_Witness ==
    /\ Advanced
    /\ i = 2
    /\ memristor.kind = "vteam"
    /\ InDeadZone(fresh, V_seq[1]) /\ InDeadZone(fresh, V_seq[2])
    /\ V_seq[2] = fresh.u_off
    /\ FLt(fresh.w_on, fresh.w) /\ FLt(fresh.w, fresh.w_off)
    /\ memristor.w = fresh.w

-----------------------------------------------------------------------------
(* C16 *)

\* C16: in every state reachable from construction by updateState calls
\* getCurrent(0) is 0, and every sample of a simulation whose voltage is 0 has
\* current 0.
C16_PinchedLoop ==
    Built =>
      /\ getCurrent(memristor, Zero) = Zero
      /\ \A k \in 1..Len(I_mem) : V_seq[k] = Zero => I_mem[k] = Zero

====
